---- MODULE Spec2Model ----
(***************************************************************************)
(* SmartInvest-AI: the backtesting core (src/core/backtesting.py).         *)
(*                                                                         *)
(* Numbers.  The code computes in IEEE doubles through pandas.  The model  *)
(* computes in exact rationals <<n, d>> (d > 0, lowest terms) extended     *)
(* with the three non-finite doubles the code can produce without raising: *)
(* NaN = <<0, 0>>, +inf = <<1, 0>>, -inf = <<-1, 0>>.  Rounding error is   *)
(* not modelled.  Results that are irrational (a root, a square root) are  *)
(* kept as records naming the closed form.                                 *)
(*                                                                         *)
(* Series.  A pandas Series is [index |-> <<dates>>, values |-> <<nums>>], *)
(* the index strictly increasing; dates are day numbers.                   *)
(***************************************************************************)
EXTENDS Integers, Sequences, FiniteSets, TLC

VARIABLES
    pc,       \* control position: of compare_strategies, or of a direct call
    call,     \* the call being run and its arguments
    ret,      \* the value a direct call returned
    exc,      \* the exception that escaped to the caller, "none" if none
    now,      \* datetime.now(), a day number
    ticks,    \* how many days the clock has advanced during the run
    world,    \* what the market-data feed holds for ^NSEI and GC=F
    k,        \* compare_strategies: how many run_backtest calls have returned
    fetches,  \* what the feed did in each fetch_historical_data so far
    data,     \* the latest run_backtest: historical_data
    pseries,  \* the latest run_backtest: portfolio_series
    results,  \* compare_strategies: the results so far, by strategy name
    previous, \* what an earlier call of compare_strategies returned to the caller
    users,            \* database: the rows of table users, in rowid order
    user_profiles,    \* database: the rows of table user_profiles, in rowid order
    recommendations,  \* database: the rows of table recommendations, in rowid order
    session,          \* the dashboard's st.session_state: its keys and their values
    page,             \* the dashboard's navigation radio
    invoked,          \* the database calls the dashboard has made, in order
    conns,            \* the update_user_profile calls in progress, one per connection
    committed         \* per user_id, the values of the update_user_profile that committed last

appvars == <<users, user_profiles, recommendations, session, page, invoked, conns, committed>>

backtestvars == <<exc, now, ticks, world, k, fetches, data, pseries, results, previous>>

vars == <<pc, call, ret, exc, now, ticks, world, k, fetches, data, pseries, results, previous,
          users, user_profiles, recommendations, session, page, invoked, conns, committed>>

-----------------------------------------------------------------------------
(* Bounds of the model.                                                    *)

\* The calendar is scaled: the model's year has YearDays days where the code
\* has 365 (timedelta(days=years*365), days/365).
YearDays == 2
\* The requested horizons are -1..MaxYears.
MaxYears == 1
\* Series handed directly to the analyzer have at most MaxLen points.
MaxLen == 4
\* The clock advances at most MaxTicks days during one comparison.
MaxTicks == 1

-----------------------------------------------------------------------------
(* Double arithmetic, exact on the finite values.                          *)

Abs(i) == IF i < 0 THEN -i ELSE i

Sign(i) == IF i < 0 THEN -1 ELSE IF i > 0 THEN 1 ELSE 0

RECURSIVE GCD(_, _)
GCD(a, b) == IF b = 0 THEN a ELSE GCD(b, a % b)

NaN == <<0, 0>>

Inf(s) == <<s, 0>>

\* The rational n/d in lowest terms; a zero denominator gives inf or NaN.
Rat(n, d) ==
    IF d = 0 THEN <<Sign(n), 0>>
    ELSE LET g == GCD(Abs(n), Abs(d))
         IN  <<Sign(d) * (n \div g), Abs(d) \div g>>

Q(i) == <<i, 1>>

IsNaN(x) == x[1] = 0 /\ x[2] = 0

IsInf(x) == x[1] # 0 /\ x[2] = 0

Neg(x) == <<-x[1], x[2]>>

Add(x, y) ==
    IF IsNaN(x) \/ IsNaN(y) THEN NaN
    ELSE IF IsInf(x) /\ IsInf(y) THEN (IF x = y THEN x ELSE NaN)
    ELSE IF IsInf(x) THEN x
    ELSE IF IsInf(y) THEN y
    ELSE LET g == GCD(x[2], y[2])
         IN  Rat(x[1] * (y[2] \div g) + y[1] * (x[2] \div g), (x[2] \div g) * y[2])

Sub(x, y) == Add(x, Neg(y))

Mul(x, y) ==
    IF IsNaN(x) \/ IsNaN(y) THEN NaN
    ELSE IF IsInf(x) \/ IsInf(y)
         THEN Inf(Sign(x[1]) * Sign(y[1]))   \* inf * 0 = <<0, 0>> = NaN
    ELSE LET g1 == GCD(Abs(x[1]), y[2])
             g2 == GCD(Abs(y[1]), x[2])
         IN  Rat((x[1] \div g1) * (y[1] \div g2), (x[2] \div g2) * (y[2] \div g1))

\* Float division never raises: x/0 is inf (NaN for 0/0).
Div(x, y) ==
    IF IsNaN(x) \/ IsNaN(y) THEN NaN
    ELSE IF IsInf(y) THEN (IF IsInf(x) THEN NaN ELSE Q(0))
    ELSE IF IsInf(x) THEN Inf(Sign(x[1]) * (IF y[1] < 0 THEN -1 ELSE 1))
    ELSE IF y[1] = 0 THEN Inf(Sign(x[1]))    \* 0/0 = <<0, 0>> = NaN
    ELSE Mul(x, <<Sign(y[1]) * y[2], Abs(y[1])>>)

\* x < y on doubles: FALSE whenever an operand is NaN.
Lt(x, y) ==
    IF IsNaN(x) \/ IsNaN(y) THEN FALSE
    ELSE IF IsInf(x) /\ IsInf(y) THEN x[1] < y[1]
    ELSE IF IsInf(x) THEN x[1] < 0
    ELSE IF IsInf(y) THEN y[1] > 0
    ELSE x[1] * y[2] < y[1] * x[2]

\* x <= y on doubles: FALSE whenever an operand is NaN.
Le(x, y) == ~IsNaN(x) /\ ~IsNaN(y) /\ (x = y \/ Lt(x, y))

-----------------------------------------------------------------------------
(* pandas Series.                                                          *)

Series(idx, vals) == [index |-> idx, values |-> vals]

EmptySeries == Series(<<>>, <<>>)

\* Series.dropna() on the values: NaN is dropped, inf is kept.
DropNa(xs) == SelectSeq(xs, LAMBDA x : ~IsNaN(x))

\* Series.std() (ddof = 1) is kept in closed form; the code only asks whether
\* it is 0.  It is NaN for fewer than two values (0/0) or when a value is
\* infinite (inf - inf), and otherwise it is 0 exactly when every value equals
\* the mean, that is when all values are equal.
StdIsNaN(xs) == Len(DropNa(xs)) < 2 \/ \E i \in 1..Len(xs) : IsInf(xs[i])

StdIsZero(xs) ==
    /\ ~StdIsNaN(xs)
    /\ \A i, j \in 1..Len(DropNa(xs)) : DropNa(xs)[i] = DropNa(xs)[j]

\* Series.min(): NaN is skipped; NaN when nothing is left.
RECURSIVE MinOf(_)
MinOf(xs) ==
    LET ys == DropNa(xs)
    IN  IF ys = <<>> THEN NaN
        ELSE IF Len(ys) = 1 THEN ys[1]
        ELSE LET m == MinOf(Tail(ys)) IN IF Lt(ys[1], m) THEN ys[1] ELSE m

\* The running maximum of Series.cummax(): NaN is skipped.
RECURSIVE RunMax(_, _)
RunMax(xs, i) ==
    IF i = 0 THEN NaN
    ELSE LET m == RunMax(xs, i - 1)
         IN  IF IsNaN(xs[i]) THEN m
             ELSE IF IsNaN(m) \/ Lt(m, xs[i]) THEN xs[i] ELSE m

\* A variant that takes the maximum of the whole series at every point.
CumMax_Overall(xs) == [i \in 1..Len(xs) |-> RunMax(xs, Len(xs))]

\* Series.cummax()
CumMax(xs) == [i \in 1..Len(xs) |-> IF IsNaN(xs[i]) THEN NaN ELSE RunMax(xs, i)]

\* Series.pct_change(): the first entry is NaN.
PctChange(xs) ==
    [i \in 1..Len(xs) |-> IF i = 1 THEN NaN ELSE Sub(Div(xs[i], xs[i - 1]), Q(1))]

-----------------------------------------------------------------------------
(* Performance analyzer.                                                   *)

\* x ** e for the operands calculate_cagr can reach past its guard: x is NaN
\* or finite and positive, e is NaN or finite and positive.  1 ** e is 1.0
\* exactly; any other power is kept as the closed form.
CagrValue(growth, years) ==
    IF growth = Q(1) THEN Q(0)
    ELSE IF IsNaN(growth) \/ IsNaN(years) THEN NaN
    ELSE [sym |-> "((growth) ** (1 / years) - 1) * 100", growth |-> growth, years |-> years]

\* A variant whose guard lets zero through.
calculate_cagr_StrictGuard(start_value, end_value, years) ==
    IF Lt(start_value, Q(0)) \/ Lt(end_value, Q(0)) \/ Lt(years, Q(0))
    THEN Q(0)
    ELSE CagrValue(Div(end_value, start_value), years)

calculate_cagr(start_value, end_value, years) ==
    IF Le(start_value, Q(0)) \/ Le(end_value, Q(0)) \/ Le(years, Q(0))
    THEN Q(0)
    ELSE CagrValue(Div(end_value, start_value), years)

calculate_max_drawdown(portfolio_series) ==
    LET v        == portfolio_series.values
        cummax   == CumMax(v)
        drawdown == [i \in 1..Len(v) |-> Mul(Div(Sub(v[i], cummax[i]), cummax[i]), Q(100))]
    IN  MinOf(drawdown)

\* risk_free_rate / 252 with the default risk_free_rate = 0.06.
DailyRiskFree == Rat(6, 100 * 252)

calculate_sharpe_ratio(portfolio_series) ==
    LET returns == DropNa(PctChange(portfolio_series.values))
        excess_returns == [i \in 1..Len(returns) |-> Sub(returns[i], DailyRiskFree)]
    IN  IF StdIsZero(excess_returns)
        THEN Q(0)
        ELSE IF StdIsNaN(excess_returns)
        THEN NaN                       \* mean / NaN
        ELSE [sym |-> "(mean(excess_returns) / std(excess_returns)) * sqrt(252)",
              excess_returns |-> excess_returns]

-----------------------------------------------------------------------------
(* Portfolio simulator.                                                    *)

AssetClasses == {"equity", "gold", "gilt", "debt"}

RECURSIVE SortSet(_)
SortSet(S) ==
    IF S = {} THEN <<>>
    ELSE LET m == CHOOSE x \in S : \A y \in S : x <= y
         IN  <<m>> \o SortSet(S \ {m})

RECURSIVE SumFn(_)
SumFn(f) ==
    IF DOMAIN f = {} THEN Q(0)
    ELSE LET a == CHOOSE a \in DOMAIN f : TRUE
         IN  Add(f[a], SumFn([b \in DOMAIN f \ {a} |-> f[b]]))

Dates(s) == {s.index[i] : i \in 1..Len(s.index)}

\* The value of series s at date d, NaN where s has none (the outer join of
\* pd.DataFrame(dict of Series)).
At(s, d) ==
    IF d \in Dates(s)
    THEN s.values[CHOOSE i \in 1..Len(s.index) : s.index[i] = d]
    ELSE NaN

\* A variant that keeps every row of the outer join.
AlignedDates_OuterJoin(historical_data) ==
    SortSet(UNION {Dates(historical_data[c]) : c \in DOMAIN historical_data})

\* pd.DataFrame(historical_data).dropna(): the index is the sorted union of the
\* series' dates, and a row is kept when no column is NaN in it.
AlignedDates(historical_data) ==
    SortSet({d \in UNION {Dates(historical_data[c]) : c \in DOMAIN historical_data} :
                \A c \in DOMAIN historical_data : ~IsNaN(At(historical_data[c], d))})

Returned(v) == [raised |-> "none", value |-> v]

Raised(e) == [raised |-> e, value |-> EmptySeries]

\* A variant that rebases on the last row instead of the first.
Rebase_OnLastRow(historical_data, idx) ==
    [col \in DOMAIN historical_data |->
       [i \in 1..Len(idx) |->
          Mul(Div(At(historical_data[col], idx[i]),
                  At(historical_data[col], idx[Len(idx)])), Q(100))]]

\* df[col] = (df[col] / df[col].iloc[0]) * 100, on the rows idx.
Rebase(historical_data, idx) ==
    [col \in DOMAIN historical_data |->
       [i \in 1..Len(idx) |->
          Mul(Div(At(historical_data[col], idx[i]),
                  At(historical_data[col], idx[1])), Q(100))]]

\* A variant that blends every weight, the negative ones too.
simulate_portfolio_EveryWeight(allocation, historical_data, initial_amount) ==
    LET idx  == AlignedDates(historical_data)
        df   == Rebase(historical_data, idx)
        held == {a \in DOMAIN allocation : a \in DOMAIN historical_data}
        portfolio_value ==
            [i \in 1..Len(idx) |->
               SumFn([a \in held |-> Mul(Div(allocation[a], Q(100)), df[a][i])])]
    IN  IF idx = <<>> /\ DOMAIN historical_data # {}
        THEN Raised("IndexError")
        ELSE Returned(Series(idx,
                 [i \in 1..Len(idx) |->
                    Mul(Div(portfolio_value[i], Q(100)), Q(initial_amount))]))

simulate_portfolio(allocation, historical_data, initial_amount) ==
    LET idx  == AlignedDates(historical_data)
        df   == Rebase(historical_data, idx)
        held == {a \in DOMAIN allocation :
                    a \in DOMAIN historical_data /\ Lt(Q(0), allocation[a])}
        portfolio_value ==
            [i \in 1..Len(idx) |->
               SumFn([a \in held |-> Mul(Div(allocation[a], Q(100)), df[a][i])])]
    IN  IF idx = <<>> /\ DOMAIN historical_data # {}
        THEN Raised("IndexError")     \* df[col].iloc[0] of an empty frame
        ELSE Returned(Series(idx,
                 [i \in 1..Len(idx) |->
                    Mul(Div(portfolio_value[i], Q(100)), Q(initial_amount))]))

-----------------------------------------------------------------------------
(* Price series provider.                                                  *)

RECURSIVE IPow(_, _)
IPow(b, e) == IF e = 0 THEN 1 ELSE b * IPow(b, e - 1)

\* 100 * ((1 + pct/100) ** (days_elapsed / 365)).  The feed's dates lie a whole
\* number of years apart (Grid), where the power is rational; between them it
\* is not, and the model has no value for it.
Compound(pct, days_elapsed) ==
    CASE days_elapsed % YearDays = 0 ->
        Rat(100 * IPow(100 + pct, days_elapsed \div YearDays),
            IPow(100, days_elapsed \div YearDays))

\* A variant that leaves the end point out (endpoint=False).
Linspace_OpenEnd(stop, n, i) == Add(Q(100), Rat((stop - 100) * (i - 1), n))

\* np.linspace(100, stop, n)[i - 1]
Linspace(stop, n, i) ==
    IF n = 1 THEN Q(100) ELSE Add(Q(100), Rat((stop - 100) * (i - 1), n - 1))

\* pd.date_range(start, end, freq='D'): empty when start is after end.
DateRange(start, end) == [i \in 1..(end - start + 1) |-> start + i - 1]

\* The rows of s with start <= date <= end, as yf.download returns them.
Within(s, start, end) ==
    LET keep == {i \in 1..Len(s.index) : start <= s.index[i] /\ s.index[i] <= end}
        pos  == SortSet(keep)
    IN  Series([j \in 1..Len(pos) |-> s.index[pos[j]]],
               [j \in 1..Len(pos) |-> s.values[pos[j]]])

\* What the two yf.download(...)['Adj Close'] of one fetch do: raise, return
\* no rows, or return the feed's rows of the requested range.
FeedOutcomes == {"raise", "empty", "rows"}

fetch_historical_data(years, today, outcome, feed) ==
    LET end_date   == today
        start_date == end_date - years * YearDays
        nifty == IF outcome = "rows" THEN Within(feed.nifty, start_date, end_date)
                 ELSE EmptySeries
        gold  == IF outcome = "rows" THEN Within(feed.gold, start_date, end_date)
                 ELSE EmptySeries
        gilt_dates == nifty.index
        gilt  == Series(gilt_dates,
                    [i \in 1..Len(gilt_dates) |-> Compound(7, gilt_dates[i] - gilt_dates[1])])
        debt  == Series(gilt_dates,
                    [i \in 1..Len(gilt_dates) |-> Compound(6, gilt_dates[i] - gilt_dates[1])])
        dates == DateRange(start_date, end_date)
        dummy(stop) == Series(dates, [i \in 1..Len(dates) |-> Linspace(stop, Len(dates), i)])
    IN  IF outcome # "raise"
        THEN [equity |-> nifty, gold |-> gold, gilt |-> gilt, debt |-> debt]
        ELSE [equity |-> dummy(180), gold |-> dummy(140),
              gilt |-> dummy(140), debt |-> dummy(134)]

-----------------------------------------------------------------------------
(* run_backtest and compare_strategies.                                    *)

\* A variant that counts the years from day 0 of the calendar.
Analyze_FromEpoch(portfolio_series) ==
    LET n            == Len(portfolio_series.values)
        start_value  == portfolio_series.values[1]
        end_value    == portfolio_series.values[n]
        actual_years == Rat(portfolio_series.index[n], YearDays)
    IN  [portfolio_series |-> portfolio_series,
         cagr          |-> calculate_cagr(start_value, end_value, actual_years),
         max_drawdown  |-> calculate_max_drawdown(portfolio_series),
         sharpe_ratio  |-> calculate_sharpe_ratio(portfolio_series),
         final_value   |-> end_value,
         initial_value |-> start_value,
         total_return  |-> Mul(Div(Sub(end_value, start_value), start_value), Q(100))]

\* A variant that takes the requested horizon for the years of the CAGR.
Analyze_NominalYears(portfolio_series) ==
    LET n            == Len(portfolio_series.values)
        start_value  == portfolio_series.values[1]
        end_value    == portfolio_series.values[n]
        actual_years == Q(call.years)
    IN  [portfolio_series |-> portfolio_series,
         cagr          |-> calculate_cagr(start_value, end_value, actual_years),
         max_drawdown  |-> calculate_max_drawdown(portfolio_series),
         sharpe_ratio  |-> calculate_sharpe_ratio(portfolio_series),
         final_value   |-> end_value,
         initial_value |-> start_value,
         total_return  |-> Mul(Div(Sub(end_value, start_value), start_value), Q(100))]

\* A variant that takes the return relative to the end value.
Analyze_ReturnOverEnd(portfolio_series) ==
    LET n            == Len(portfolio_series.values)
        start_value  == portfolio_series.values[1]
        end_value    == portfolio_series.values[n]
        actual_years == Rat(portfolio_series.index[n] - portfolio_series.index[1], YearDays)
    IN  [portfolio_series |-> portfolio_series,
         cagr          |-> calculate_cagr(start_value, end_value, actual_years),
         max_drawdown  |-> calculate_max_drawdown(portfolio_series),
         sharpe_ratio  |-> calculate_sharpe_ratio(portfolio_series),
         final_value   |-> end_value,
         initial_value |-> start_value,
         total_return  |-> Mul(Div(Sub(end_value, start_value), end_value), Q(100))]

\* run_backtest past simulate_portfolio; the series has a first value here.
Analyze(portfolio_series) ==
    LET n            == Len(portfolio_series.values)
        start_value  == portfolio_series.values[1]
        end_value    == portfolio_series.values[n]
        actual_years == Rat(portfolio_series.index[n] - portfolio_series.index[1], YearDays)
    IN  [portfolio_series |-> portfolio_series,
         cagr          |-> calculate_cagr(start_value, end_value, actual_years),
         max_drawdown  |-> calculate_max_drawdown(portfolio_series),
         sharpe_ratio  |-> calculate_sharpe_ratio(portfolio_series),
         final_value   |-> end_value,
         initial_value |-> start_value,
         total_return  |-> Mul(Div(Sub(end_value, start_value), start_value), Q(100))]

\* A variant that keeps the price data of the cycle before.
CycleData_Reused(fetched, held) == IF held = <<>> THEN fetched ELSE held

\* The price data of one run_backtest: what its own fetch_historical_data
\* returned; of the data held from the cycle before nothing is used.
CycleData(fetched, held) == fetched

nifty_allocation == [equity |-> Q(100), gold |-> Q(0), gilt |-> Q(0), debt |-> Q(0)]

fd_allocation == [equity |-> Q(0), gold |-> Q(0), gilt |-> Q(0), debt |-> Q(100)]

StrategyNames == <<"Recommended Portfolio", "Nifty 50 Only", "Fixed Deposit Only">>

\* A variant that hands the two benchmarks over in the other order.
StrategyAllocation_Swapped(i) ==
    CASE i = 1 -> call.recommended_allocation
      [] i = 2 -> fd_allocation
      [] i = 3 -> nifty_allocation

\* The allocation compare_strategies hands to its i-th run_backtest.
StrategyAllocation(i) ==
    CASE i = 1 -> call.recommended_allocation
      [] i = 2 -> nifty_allocation
      [] i = 3 -> fd_allocation

-----------------------------------------------------------------------------
(* Allocation engine (src/core/allocation_engine.py).                      *)

base_allocation(risk_level, horizon_years) ==
    IF risk_level = "Low"
    THEN IF horizon_years < 3
         THEN [equity |-> Q(20), gold |-> Q(10), gilt |-> Q(30), debt |-> Q(40)]
         ELSE [equity |-> Q(35), gold |-> Q(15), gilt |-> Q(30), debt |-> Q(20)]
    ELSE IF risk_level = "Medium"
    THEN IF horizon_years < 5
         THEN [equity |-> Q(45), gold |-> Q(15), gilt |-> Q(25), debt |-> Q(15)]
         ELSE [equity |-> Q(55), gold |-> Q(20), gilt |-> Q(15), debt |-> Q(10)]
    ELSE IF horizon_years < 5
         THEN [equity |-> Q(60), gold |-> Q(20), gilt |-> Q(10), debt |-> Q(10)]
         ELSE [equity |-> Q(70), gold |-> Q(15), gilt |-> Q(10), debt |-> Q(5)]

\* A variant that always takes the full shift.
Min_Full(x, y) == x

\* min(x, y) of Python
Min(x, y) == IF Lt(y, x) THEN y ELSE x

\* The largest integer not above the finite x.
Floor(x) == x[1] \div x[2]

\* A variant that rounds to a whole number.
Round2_ToWhole(x, up) ==
    LET fl  == Floor(x)
        rem == Sub(x, Q(fl))
    IN  IF Lt(Rat(1, 2), rem) \/ (rem = Rat(1, 2) /\ up) THEN Q(fl + 1) ELSE Q(fl)

\* round(x, 2) of a finite x: to the nearest multiple of 0.01.  A double that is
\* computed where the exact value lies midway between two of them may lie on
\* either side, and up says which way such a value goes.
Round2(x, up) ==
    LET y   == Mul(x, Q(100))
        fl  == Floor(y)
        rem == Sub(y, Q(fl))
    IN  IF Lt(Rat(1, 2), rem) \/ (rem = Rat(1, 2) /\ up)
        THEN Rat(fl + 1, 100)
        ELSE Rat(fl, 100)

\* alloc of adjust_for_valuation before it is normalised: the copy of the
\* argument with the shifts of the two flags applied.
Tilted(allocation, equity_overvalued, gold_overvalued) ==
    LET a1 == IF equity_overvalued
              THEN LET shift == Min(Q(10), allocation.equity)
                   IN  [allocation EXCEPT !.equity = Sub(@, shift),
                                          !.gilt   = Add(@, Div(shift, Q(2))),
                                          !.gold   = Add(@, Div(shift, Q(2)))]
              ELSE allocation
    IN  IF gold_overvalued
        THEN LET shift == Min(Q(5), a1.gold)
             IN  [a1 EXCEPT !.gold   = Sub(@, shift),
                            !.equity = Add(@, Mul(shift, Rat(6, 10))),
                            !.gilt   = Add(@, Mul(shift, Rat(4, 10)))]
        ELSE a1

\* adjust_for_valuation; ties says, key by key, which way a midway value is
\* rounded.  The result is in the value field.
adjust_for_valuation(allocation, equity_overvalued, gold_overvalued, ties) ==
    LET a2    == Tilted(allocation, equity_overvalued, gold_overvalued)
        total == SumFn(a2)
    IN  IF (equity_overvalued \/ gold_overvalued)
           /\ ~({"equity", "gilt", "gold"} \subseteq DOMAIN allocation)
        THEN Raised("KeyError")
        ELSE IF total = Q(0)
        THEN Raised("ZeroDivisionError")
        ELSE Returned([a \in DOMAIN a2 |->
                          Round2(Div(Mul(a2[a], Q(100)), total), ties[a])])

-----------------------------------------------------------------------------
(* Risk scoring (src/core/risk_scoring.py).                                *)

RECURSIVE SumInts(_)
SumInts(f) ==
    IF DOMAIN f = {} THEN 0
    ELSE LET a == CHOOSE a \in DOMAIN f : TRUE
         IN  f[a] + SumInts([b \in DOMAIN f \ {a} |-> f[b]])

\* A variant that divides by the ten points of one question.
compute_risk_score_OneQuestion(answers) ==
    IF DOMAIN answers = {} THEN 50
    ELSE LET total == SumInts(answers) IN (total * 100) \div 10

\* int((total / max_total) * 100): int() drops the fraction of a value that is
\* not negative.
compute_risk_score(answers) ==
    IF DOMAIN answers = {} THEN 50
    ELSE LET total     == SumInts(answers)
             max_total == Cardinality(DOMAIN answers) * 10
         IN  IF total >= 0
             THEN (total * 100) \div max_total
             ELSE 0 - (((0 - total) * 100) \div max_total)

classify_risk(score) ==
    IF score < 35 THEN "Low" ELSE IF score < 70 THEN "Medium" ELSE "High"

-----------------------------------------------------------------------------
(* Inputs.                                                                 *)

\* The horizons asked for: negative, zero and positive.
Horizons == (0 - 1)..MaxYears

Amounts == {100, 250}

Allocations ==
    { [equity |-> Q(50), gold |-> Q(20), gilt |-> Q(20), debt |-> Q(10)],
      nifty_allocation,
      [equity |-> Q(0), gold |-> Q(0), gilt |-> Q(0), debt |-> Q(0)],
      [equity |-> Q(60), crypto |-> Q(40)],
      [equity |-> Q(120), gold |-> Q(0), gilt |-> Q(0), debt |-> Q(-20)] }

\* The series with integer values vals on the dates of D.
SeriesOn(f) ==
    LET idx == SortSet(DOMAIN f)
    IN  Series(idx, [i \in 1..Len(idx) |-> Q(f[idx[i]])])

\* The feed's trading days lie whole years apart, the last one today.
Today == MaxYears * YearDays

Grid == {Today - i * YearDays : i \in 0..MaxYears}

\* What the feed holds is learned when it is asked, and asked again it answers
\* the same: world.nifty and world.gold map each day asked about so far to the
\* price of its row, 0 for a day without a row.  ^NSEI trades at any price,
\* GC=F at one price (a series is rebased, so its dates are what matter).
NoWorld == [nifty |-> <<>>, gold |-> <<>>]

Extensions(f, D, P) ==
    {g \in [DOMAIN f \cup D -> P \cup {0}] : \A d \in DOMAIN f : g[d] = f[d]}

NiftyPrices == {1, 2}

GoldPrices == {1}

Reveal(w, D) ==
    [nifty : Extensions(w.nifty, D, NiftyPrices), gold : Extensions(w.gold, D, GoldPrices)]

\* The rows the feed holds, as a series.
Rows(f) == SeriesOn([d \in {e \in DOMAIN f : f[e] > 0} |-> f[d]])

\* Series handed to the analyzer directly: positive values on consecutive days.
SeriesOfValues(f) ==
    LET n == Cardinality(DOMAIN f)
    IN  Series([i \in 1..n |-> i], [i \in 1..n |-> Q(f[i])])

AnalyzerValues == {1, 2, 3}

AnalyzerInputs ==
    {SeriesOfValues(f) : f \in UNION {[1..m -> AnalyzerValues] : m \in 0..MaxLen}}

\* Arguments handed to calculate_cagr directly.
CagrInputs == {Q(-1), Q(0), Q(1), Q(2), Rat(1, 2), NaN}

\* Price data handed to simulate_portfolio directly: two dates; the equity and
\* gold series may lack either, the gilt and debt series have both.
SimDates == {1, 2}

SimPrices == {2, 3}

SimSeries(D) == {SeriesOn(f) : f \in UNION {[E -> SimPrices] : E \in D}}

SimInputs ==
    [equity : SimSeries(SUBSET SimDates), gold : SimSeries(SUBSET SimDates),
     gilt : SimSeries({SimDates}), debt : SimSeries({SimDates})]

\* Arguments handed to base_allocation: the dashboard's horizons start at 1.
RiskLevels == {"Low", "Medium", "High"}

HorizonYears == 1..6

\* Allocations handed to adjust_for_valuation: those of base_allocation, every
\* mix of a few weights (the all-zero one among them), one with a key that is
\* no asset class, and one with weights of three decimals.
AdjustWeights == {0, 3, 10}

AdjustInputs ==
    {base_allocation(r, h) : r \in RiskLevels, h \in HorizonYears}
    \cup {[a \in AssetClasses |-> Q(f[a])] : f \in [AssetClasses -> AdjustWeights]}
    \cup {[equity |-> Q(60), crypto |-> Q(40)]}
    \cup {[equity |-> Q(50), gold |-> Q(20), gilt |-> Rat(20004, 1000),
           debt |-> Rat(9996, 1000)]}

\* Answers handed to compute_risk_score: any of the dashboard's three
\* questions, each with a score on the 0..10 slider or, out of range, 12.
Questions == {"q1", "q2", "q3"}

AnswerScores == {0, 1, 4, 5, 7, 10, 12}

AnswersInputs == UNION {[D -> AnswerScores] : D \in SUBSET Questions}

\* Scores handed to classify_risk.
ClassifyScores == (0 - 5)..105


-----------------------------------------------------------------------------
(* The database: three tables, each a sequence of rows in rowid order.     *)
(* Every function opens its own connection and commits before it returns.  *)

None == "None"

\* The SHA-256 digest of the password: equal passwords give equal digests,
\* and different passwords of the model give different ones.
hash_password(password) == <<"sha256", password>>

HasUsername(table, username) == \E i \in DOMAIN table : table[i].username = username

\* create_user on a table that does not declare username UNIQUE.
create_user_NoUnique(table, username, password) ==
    [users |-> Append(table, [id |-> Len(table) + 1, username |-> username,
                              password_hash |-> hash_password(password)]),
     ret |-> <<TRUE, "Account created successfully!", Len(table) + 1>>]

\* Table users declares username UNIQUE: the INSERT of a second row with the
\* same username raises IntegrityError and adds nothing.
create_user(table, username, password) ==
    IF HasUsername(table, username)
    THEN [users |-> table, ret |-> <<FALSE, "Username already exists!", None>>]
    ELSE [users |-> Append(table, [id |-> Len(table) + 1, username |-> username,
                                   password_hash |-> hash_password(password)]),
          ret |-> <<TRUE, "Account created successfully!", Len(table) + 1>>]

Matching(table, username, password) ==
    {i \in DOMAIN table : /\ table[i].username = username
                          /\ table[i].password_hash = hash_password(password)}

\* fetchone() gives the first row that matches, if there is one.
authenticate_user(table, username, password) ==
    LET found == Matching(table, username, password)
    IN  IF found # {}
        THEN <<TRUE, "Login successful!",
               table[CHOOSE i \in found : \A j \in found : i <= j].id>>
        ELSE <<FALSE, "Invalid username or password!", None>>

\* save_recommendation adds one row for the user.
save_recommendation(table, user_id, risk_level) ==
    Append(table, [id |-> Len(table) + 1, user_id |-> user_id, risk_level |-> risk_level])

\* update_user_profile, first statement: SELECT id ... WHERE user_id = ?,
\* fetchone(): whether the user has a row.
SelectProfile(table, user_id) == \E i \in DOMAIN table : table[i].user_id = user_id

\* update_user_profile, second statement and commit: UPDATE every row of the
\* user when the SELECT found one, INSERT a new row when it found none. Table
\* user_profiles declares no uniqueness of user_id.
WriteProfile(table, existing, user_id, profile) ==
    IF existing
    THEN [i \in DOMAIN table |->
            IF table[i].user_id = user_id
            THEN [id |-> table[i].id, user_id |-> user_id, profile |-> profile]
            ELSE table[i]]
    ELSE Append(table, [id |-> Len(table) + 1, user_id |-> user_id, profile |-> profile])

\* One call of update_user_profile with no other connection writing meanwhile.
update_user_profile(table, user_id, profile) ==
    WriteProfile(table, SelectProfile(table, user_id), user_id, profile)

\* fetchone() of the user's rows: the one with the lowest rowid.
get_user_profile(table, user_id) ==
    LET found == {i \in DOMAIN table : table[i].user_id = user_id}
    IN  IF found # {}
        THEN table[CHOOSE i \in found : \A j \in found : i <= j].profile
        ELSE None

\* What the dashboard and its users hand to the database.
Usernames == {"asha", "ravi"}

Passwords == {"pw1", "pw2", "pw3"}

Profiles ==
    {[age |-> 30, horizon |-> 5, risk_level |-> "Medium", risk_score |-> 50],
     [age |-> 45, horizon |-> 10, risk_level |-> "Low", risk_score |-> 20]}

\* Connections that may run update_user_profile at the same time.
Connections == {"c1", "c2"}

Idle == [at |-> "idle"]

NoSession == <<>>

AppUnused ==
    /\ users = <<>> /\ user_profiles = <<>> /\ recommendations = <<>>
    /\ session = NoSession /\ page = "none" /\ invoked = <<>>
    /\ conns = [c \in Connections |-> Idle] /\ committed = <<>>

-----------------------------------------------------------------------------
(* The state machine: one call of compare_strategies, run_backtest by      *)
(* run_backtest, or one direct call of a pure function.                    *)

NoData == <<>>

NoResults == <<>>

NoValue == <<>>

Unused ==
    /\ ret = NoValue /\ exc = "none" /\ now = Today /\ ticks = 0 /\ k = 0
    /\ fetches = <<>> /\ data = NoData /\ pseries = EmptySeries /\ results = NoResults
    /\ AppUnused
    /\ previous = NoResults

Init ==
    /\ Unused
    /\ world = NoWorld
    /\ \/ /\ pc = "compare"
          /\ call \in [fn : {"compare_strategies"}, recommended_allocation : Allocations,
                        initial_amount : Amounts, years : Horizons]
       \/ /\ pc = "call"
          /\ \/ call \in [fn : {"simulate_portfolio"}, allocation : Allocations,
                           historical_data : SimInputs, initial_amount : Amounts]
             \/ call \in [fn : {"run_backtest"}, allocation : Allocations,
                           historical_data : SimInputs, initial_amount : {100},
                           years : {MaxYears}]
             \/ call \in [fn : {"calculate_cagr"}, start_value : CagrInputs,
                           end_value : CagrInputs, years : CagrInputs]
             \/ call \in [fn : {"calculate_max_drawdown", "calculate_sharpe_ratio"},
                           portfolio_series : AnalyzerInputs]
             \/ call \in [fn : {"base_allocation"}, risk_level : RiskLevels,
                           horizon_years : HorizonYears]
             \/ call \in {[fn |-> "adjust_for_valuation", allocation |-> a, base_alloc |-> a,
                            equity_overvalued |-> e, gold_overvalued |-> g] :
                              a \in AdjustInputs, e \in BOOLEAN, g \in BOOLEAN}
             \/ call \in [fn : {"compute_risk_score"}, answers : AnswersInputs]
             \/ call \in [fn : {"classify_risk"}, score : ClassifyScores]

\* datetime.now() moves on between two run_backtest calls (the feed's days are
\* counted from the day of the first).
Tick ==
    /\ pc = "compare" /\ k > 0 /\ ticks < MaxTicks
    /\ now' = now + 1 /\ ticks' = ticks + 1
    /\ UNCHANGED <<pc, call, ret, exc, world, k, fetches, data, pseries, results, previous>>
    /\ UNCHANGED appvars

\* What the feed may do in the next fetch.  Of the second calls of
\* compare_strategies only those are followed in which the feed raises,
\* returns no rows or returns rows as it did in the same cycle of the first.
OutcomesNow ==
    IF previous = NoResults THEN FeedOutcomes ELSE {fetches[k + 1].outcome}

\* The next run_backtest of compare_strategies: fetch, simulate, analyze.  An
\* exception leaves compare_strategies; after the third result the mapping is
\* returned.
RunBacktest ==
    /\ pc = "compare"
    /\ \E outcome \in OutcomesNow :
       \E w \in IF outcome = "rows"
                THEN Reveal(world, {d \in Grid : now - call.years * YearDays <= d /\ d <= now})
                ELSE {world} :
          LET historical_data ==
                  CycleData(fetch_historical_data(call.years, now, outcome,
                                [nifty |-> Rows(w.nifty), gold |-> Rows(w.gold)]),
                            data)
              r == simulate_portfolio(StrategyAllocation(k + 1), historical_data,
                                      call.initial_amount)
          IN  /\ world' = w
              /\ fetches' = Append(fetches, [outcome |-> outcome, today |-> now])
              /\ data' = historical_data
              /\ pseries' = r.value
              /\ exc' = r.raised
              /\ IF r.raised # "none"
                 THEN pc' = "raised" /\ UNCHANGED <<k, results, ret>>
                 ELSE /\ results' = results @@ (StrategyNames[k + 1] :> Analyze(r.value))
                      /\ k' = k + 1
                      /\ pc' = IF k' = 3 THEN "done" ELSE "compare"
                      /\ ret' = IF k' = 3 THEN results' ELSE ret
    /\ UNCHANGED <<call, now, ticks, previous>>
    /\ UNCHANGED appvars

CallSimulate ==
    /\ pc = "call" /\ call.fn = "simulate_portfolio"
    /\ LET r == simulate_portfolio(call.allocation, call.historical_data, call.initial_amount)
       IN  ret' = r.value /\ exc' = r.raised
    /\ pc' = "returned"
    /\ UNCHANGED <<call, now, ticks, world, k, fetches, data, pseries, results, previous>>
    /\ UNCHANGED appvars

\* run_backtest when fetch_historical_data hands it call.historical_data:
\* simulate, then analyze.
CallBacktest ==
    /\ pc = "call" /\ call.fn = "run_backtest"
    /\ LET r == simulate_portfolio(call.allocation, call.historical_data, call.initial_amount)
       IN  /\ ret' = IF r.raised = "none" THEN Analyze(r.value) ELSE NoValue
           /\ exc' = r.raised
    /\ pc' = "returned"
    /\ UNCHANGED <<call, now, ticks, world, k, fetches, data, pseries, results, previous>>
    /\ UNCHANGED appvars

CallCagr ==
    /\ pc = "call" /\ call.fn = "calculate_cagr"
    /\ ret' = calculate_cagr(call.start_value, call.end_value, call.years)
    /\ pc' = "returned"
    /\ UNCHANGED <<call, exc, now, ticks, world, k, fetches, data, pseries, results, previous>>
    /\ UNCHANGED appvars

CallMaxDrawdown ==
    /\ pc = "call" /\ call.fn = "calculate_max_drawdown"
    /\ ret' = calculate_max_drawdown(call.portfolio_series)
    /\ pc' = "returned"
    /\ UNCHANGED <<call, exc, now, ticks, world, k, fetches, data, pseries, results, previous>>
    /\ UNCHANGED appvars

CallSharpe ==
    /\ pc = "call" /\ call.fn = "calculate_sharpe_ratio"
    /\ ret' = calculate_sharpe_ratio(call.portfolio_series)
    /\ pc' = "returned"
    /\ UNCHANGED <<call, exc, now, ticks, world, k, fetches, data, pseries, results, previous>>
    /\ UNCHANGED appvars

CallBaseAllocation ==
    /\ pc = "call" /\ call.fn = "base_allocation"
    /\ ret' = base_allocation(call.risk_level, call.horizon_years)
    /\ pc' = "returned"
    /\ UNCHANGED <<call, exc, now, ticks, world, k, fetches, data, pseries, results, previous>>
    /\ UNCHANGED appvars

CallAdjust ==
    /\ pc = "call" /\ call.fn = "adjust_for_valuation"
    /\ \E ties \in [DOMAIN call.allocation -> BOOLEAN] :
          LET r == adjust_for_valuation(call.allocation, call.equity_overvalued,
                                        call.gold_overvalued, ties)
          IN  /\ ret' = IF r.raised = "none" THEN r.value ELSE NoValue
              /\ exc' = r.raised
    \* the function works on allocation.copy(): the caller's mapping, base_alloc,
    \* still has the values that were passed
    /\ call' = [call EXCEPT !.base_alloc = call.allocation]
    /\ pc' = "returned"
    /\ UNCHANGED <<now, ticks, world, k, fetches, data, pseries, results, previous>>
    /\ UNCHANGED appvars

CallRiskScore ==
    /\ pc = "call" /\ call.fn = "compute_risk_score"
    /\ ret' = compute_risk_score(call.answers)
    /\ pc' = "returned"
    /\ UNCHANGED <<call, exc, now, ticks, world, k, fetches, data, pseries, results, previous>>
    /\ UNCHANGED appvars

CallClassify ==
    /\ pc = "call" /\ call.fn = "classify_risk"
    /\ ret' = classify_risk(call.score)
    /\ pc' = "returned"
    /\ UNCHANGED <<call, exc, now, ticks, world, k, fetches, data, pseries, results, previous>>
    /\ UNCHANGED appvars

Next ==
    \/ Tick
    \/ RunBacktest
    \/ CallSimulate
    \/ CallBacktest
    \/ CallCagr
    \/ CallMaxDrawdown
    \/ CallSharpe
    \/ CallBaseAllocation
    \/ CallAdjust
    \/ CallRiskScore
    \/ CallClassify

Spec == Init /\ [][Next]_vars

-----------------------------------------------------------------------------
(* compare_strategies called, and then called once more with the same      *)
(* arguments, any time later.                                              *)

InitAgain ==
    /\ Unused
    /\ world = NoWorld
    /\ pc = "compare"
    /\ call \in [fn : {"compare_strategies"},
                  recommended_allocation :
                     {[equity |-> Q(50), gold |-> Q(20), gilt |-> Q(20), debt |-> Q(10)]},
                  initial_amount : Amounts, years : Horizons]

\* The caller keeps what the first call returned and calls again.
CallAgain ==
    /\ pc = "done" /\ previous = NoResults
    /\ previous' = ret
    /\ \E later \in 0..(MaxTicks - ticks) : now' = now + later /\ ticks' = ticks + later
    /\ pc' = "compare" /\ k' = 0 /\ results' = NoResults /\ ret' = NoValue
    /\ UNCHANGED <<call, exc, world, fetches, data, pseries>>
    /\ UNCHANGED appvars

NextAgain ==
    \/ Tick
    \/ RunBacktest
    \/ CallAgain

SpecAgain == InitAgain /\ [][NextAgain]_vars

-----------------------------------------------------------------------------
(* Callers of create_user and authenticate_user, one call after another.   *)

NoCall == [fn |-> "none"]

InitDb ==
    /\ Unused
    /\ world = NoWorld
    /\ pc = "db"
    /\ call = NoCall

CreateUser ==
    /\ pc = "db"
    /\ \E username \in Usernames, password \in Passwords :
          LET done == create_user(users, username, password)
          IN  /\ call' = [fn |-> "create_user", username |-> username,
                          password |-> password]
              /\ users' = done.users
              /\ ret' = done.ret
    /\ UNCHANGED <<pc, user_profiles, recommendations, session, page, invoked,
                   conns, committed>>
    /\ UNCHANGED backtestvars

AuthenticateUser ==
    /\ pc = "db"
    /\ \E username \in Usernames, password \in Passwords :
          /\ call' = [fn |-> "authenticate_user", username |-> username,
                      password |-> password]
          /\ ret' = authenticate_user(users, username, password)
    /\ UNCHANGED <<pc>>
    /\ UNCHANGED appvars
    /\ UNCHANGED backtestvars

NextDb ==
    \/ CreateUser
    \/ AuthenticateUser

SpecDb == InitDb /\ [][NextDb]_vars

-----------------------------------------------------------------------------
(* The dashboard: one browser session, one event after another. An action  *)
(* is the whole script run that the event causes, reruns included.         *)

MaxInvoked == 5

\* What the user may type into the forms.
FormUsernames == {""} \cup Usernames

FormPasswords == {"", "pw1", "pw2"}

\* st.session_state[key] = value
SetKey(state, key, value) ==
    [x \in DOMAIN state \cup {key} |-> IF x = key THEN value ELSE state[x]]

\* st.session_state.get(key), for the keys that hold a flag.
GetFlag(state, key) == key \in DOMAIN state /\ state[key]

\* main() puts the two flags in a session that lacks them.
Defaults(state) ==
    LET withLogin == IF "logged_in" \in DOMAIN state THEN state
                     ELSE SetKey(state, "logged_in", FALSE)
    IN  IF "guest_mode" \in DOMAIN withLogin THEN withLogin
        ELSE SetKey(withLogin, "guest_mode", FALSE)

\* main() routes to the login page unless one of the flags is set; the
\* navigation radio then starts on its first option.
Routed(state) ==
    IF state.logged_in \/ state.guest_mode THEN "recommendation" ELSE "login"

\* The options of the navigation radio.
NavigationOptions(state) ==
    IF state.logged_in THEN {"recommendation", "saved"} ELSE {"recommendation"}

Invocation(fn, user_id) ==
    [fn |-> fn, user_id |-> user_id,
     logged_in |-> GetFlag(session, "logged_in"),
     guest_mode |-> GetFlag(session, "guest_mode")]

\* A logout that only clears the flag.
LoggedOut_FlagOnly(state) == SetKey(state, "logged_in", FALSE)

\* What "Logout" leaves of the session: it deletes every key.
LoggedOut(state) == NoSession

InitApp ==
    /\ ret = NoValue /\ exc = "none" /\ now = Today /\ ticks = 0 /\ k = 0
    /\ fetches = <<>> /\ data = NoData /\ pseries = EmptySeries /\ results = NoResults
    /\ previous = NoResults /\ world = NoWorld
    /\ users = <<>> /\ user_profiles = <<>> /\ recommendations = <<>>
    /\ conns = [c \in Connections |-> Idle] /\ committed = <<>>
    /\ invoked = <<>>
    /\ pc = "app"
    /\ call = NoCall
    /\ session = Defaults(NoSession)
    /\ page = Routed(Defaults(NoSession))

\* The login form is submitted.
Login ==
    /\ pc = "app" /\ page = "login"
    /\ \E username \in FormUsernames, password \in FormPasswords :
          IF username # "" /\ password # ""
          THEN LET answer == authenticate_user(users, username, password)
               IN  IF answer[1]
                   THEN /\ Len(invoked) < MaxInvoked
                        /\ invoked' = Append(invoked,
                                             Invocation("authenticate_user", answer[3]))
                        /\ session' = SetKey(SetKey(SetKey(session, "logged_in", TRUE),
                                                    "user_id", answer[3]),
                                             "username", username)
                        /\ page' = Routed(session')
                   ELSE UNCHANGED <<invoked, session, page>>
          ELSE UNCHANGED <<invoked, session, page>>
    /\ call' = [fn |-> "login"]
    /\ UNCHANGED <<pc, ret, users, user_profiles, recommendations, conns, committed>>
    /\ UNCHANGED backtestvars

\* The sign-up form is submitted.
SignUp ==
    /\ pc = "app" /\ page = "login"
    /\ \E new_username \in FormUsernames, new_password, confirm_password \in FormPasswords :
          IF new_username # "" /\ new_password # "" /\ new_password = confirm_password
          THEN users' = create_user(users, new_username, new_password).users
          ELSE UNCHANGED users
    /\ call' = [fn |-> "sign_up"]
    /\ UNCHANGED <<pc, ret, user_profiles, recommendations, session, page, invoked,
                   conns, committed>>
    /\ UNCHANGED backtestvars

\* "Continue as Guest" on the login page.
ContinueAsGuest ==
    /\ pc = "app" /\ page = "login"
    /\ session' = SetKey(SetKey(session, "logged_in", FALSE), "guest_mode", TRUE)
    /\ page' = Routed(session')
    /\ call' = [fn |-> "continue_as_guest"]
    /\ UNCHANGED <<pc, ret, users, user_profiles, recommendations, invoked, conns, committed>>
    /\ UNCHANGED backtestvars

\* "Login" on the recommendation page of a session that is not logged in.
GuestLogin ==
    /\ pc = "app" /\ page = "recommendation" /\ ~GetFlag(session, "logged_in")
    /\ session' = SetKey(session, "guest_mode", FALSE)
    /\ page' = Routed(session')
    /\ call' = [fn |-> "guest_login"]
    /\ UNCHANGED <<pc, ret, users, user_profiles, recommendations, invoked, conns, committed>>
    /\ UNCHANGED backtestvars

\* "Logout" on the recommendation page: every key is deleted, and the rerun
\* starts from main().
Logout ==
    /\ pc = "app" /\ page = "recommendation" /\ GetFlag(session, "logged_in")
    /\ session' = Defaults(LoggedOut(session))
    /\ page' = Routed(session')
    /\ call' = [fn |-> "logout"]
    /\ UNCHANGED <<pc, ret, users, user_profiles, recommendations, invoked, conns, committed>>
    /\ UNCHANGED backtestvars

\* Another option of the navigation radio is chosen.
Navigate ==
    /\ pc = "app" /\ page \in {"recommendation", "saved"}
    /\ \E to \in NavigationOptions(session) \ {page} : page' = to
    /\ call' = [fn |-> "navigate"]
    /\ UNCHANGED <<pc, ret, users, user_profiles, recommendations, session, invoked,
                   conns, committed>>
    /\ UNCHANGED backtestvars

\* "Get Recommendation": the backtest either returns or raises; only when it
\* returns does the script reach the saving of the recommendation.
GetRecommendation ==
    /\ pc = "app" /\ page = "recommendation"
    /\ \E profile \in Profiles, backtest \in {"returned", "raised"} :
          IF backtest = "returned" /\ GetFlag(session, "logged_in")
          THEN /\ Len(invoked) + 2 <= MaxInvoked
               /\ recommendations' = save_recommendation(recommendations, session.user_id,
                                                         profile.risk_level)
               /\ user_profiles' = update_user_profile(user_profiles, session.user_id,
                                                       profile)
               /\ invoked' = invoked \o <<Invocation("save_recommendation", session.user_id),
                                          Invocation("update_user_profile", session.user_id)>>
          ELSE UNCHANGED <<recommendations, user_profiles, invoked>>
    /\ call' = [fn |-> "get_recommendation"]
    /\ UNCHANGED <<pc, ret, users, session, page, conns, committed>>
    /\ UNCHANGED backtestvars

NextApp ==
    \/ Login
    \/ SignUp
    \/ ContinueAsGuest
    \/ GuestLogin
    \/ Logout
    \/ Navigate
    \/ GetRecommendation

SpecApp == InitApp /\ [][NextApp]_vars

-----------------------------------------------------------------------------
(* Callers of update_user_profile on connections of their own: a call is   *)
(* two steps, the SELECT and then the write with its commit, and the steps *)
(* of two calls may interleave. SQLite lets one connection write at a      *)
(* time, so a write and its commit are one step.                           *)

UserIds == {1, 2}

InitProfiles ==
    /\ Unused
    /\ world = NoWorld
    /\ pc = "profiles"
    /\ call = NoCall

\* A call starts: it opens its connection and runs the SELECT.
SelectExisting ==
    /\ pc = "profiles"
    /\ \E c \in Connections, user_id \in UserIds, profile \in Profiles :
          /\ conns[c] = Idle
          /\ conns' = [conns EXCEPT ![c] =
                          [at |-> "selected", user_id |-> user_id, profile |-> profile,
                           existing |-> SelectProfile(user_profiles, user_id)]]
    /\ UNCHANGED <<pc, call, ret, users, user_profiles, recommendations, session, page,
                   invoked, committed>>
    /\ UNCHANGED backtestvars

\* The call goes on: UPDATE or INSERT as its SELECT decided, commit, return.
WriteAndCommit ==
    /\ pc = "profiles"
    /\ \E c \in Connections :
          /\ conns[c].at = "selected"
          /\ user_profiles' = WriteProfile(user_profiles, conns[c].existing,
                                           conns[c].user_id, conns[c].profile)
          /\ committed' = SetKey(committed, conns[c].user_id, conns[c].profile)
          /\ conns' = [conns EXCEPT ![c] = Idle]
          /\ call' = [fn |-> "update_user_profile", user_id |-> conns[c].user_id]
          /\ ret' = TRUE
    /\ UNCHANGED <<pc, users, recommendations, session, page, invoked>>
    /\ UNCHANGED backtestvars

NextProfiles ==
    \/ SelectExisting
    \/ WriteAndCommit

SpecProfiles == InitProfiles /\ [][NextProfiles]_vars

-----------------------------------------------------------------------------
(* Properties.                                                             *)

InCompare == call.fn = "compare_strategies"

Returned_From(fn) == pc = "returned" /\ call.fn = fn

\* The latest run_backtest of compare_strategies has returned its result.
RanBacktest == InCompare /\ k >= 1 /\ Len(fetches) = k /\ pc # "raised"

LastFetch == fetches[Len(fetches)]

\* An Allocation of the data model over the columns of the price data:
\* non-negative weights that sum to 100.
SumsTo100(allocation, historical_data) ==
    /\ DOMAIN allocation \subseteq DOMAIN historical_data
    /\ \A a \in DOMAIN allocation : Le(Q(0), allocation[a])
    /\ SumFn(allocation) = Q(100)

\* C1: for an allocation whose weights sum to 100, all keys among the columns
\* of the price data, and a positive initial_amount M, the first value of the
\* series simulate_portfolio returns is M.
C1_FirstValueIsAmount ==
    /\ (Returned_From("simulate_portfolio") /\ exc = "none"
          /\ SumsTo100(call.allocation, call.historical_data))
       => ret.values[1] = Q(call.initial_amount)
    /\ (RanBacktest /\ SumsTo100(StrategyAllocation(k), data))
       => pseries.values[1] = Q(call.initial_amount)

C1_Witness ==
    /\ Returned_From("simulate_portfolio") /\ exc = "none"
    /\ call.allocation = [equity |-> Q(50), gold |-> Q(20), gilt |-> Q(20), debt |-> Q(10)]
    /\ call.initial_amount = 250
    /\ Len(ret.values) = 2
    /\ ret.values[1] = Q(250) /\ ret.values[2] # Q(250)

\* The four synthetic fallback series of fetch_historical_data for the horizon
\* years asked for on day today.
IsFallback(d, years, today) ==
    /\ DOMAIN d = AssetClasses
    /\ \A a \in AssetClasses :
          /\ d[a].index = DateRange(today - years * YearDays, today)
          /\ Len(d[a].values) = Len(d[a].index)
          /\ d[a].values[1] = Q(100)
    /\ d.equity.values[Len(d.equity.values)] = Q(180)
    /\ d.gold.values[Len(d.gold.values)] = Q(140)
    /\ d.gilt.values[Len(d.gilt.values)] = Q(140)
    /\ d.debt.values[Len(d.debt.values)] = Q(134)

\* C2: when the feed raises or returns no data, fetch_historical_data returns
\* the synthetic fallback series and run_backtest returns a result; no
\* exception reaches the caller.  (Stated for the horizons of one year and
\* more.)
C2_FeedFailureRecovered ==
    (InCompare /\ Len(fetches) >= 1 /\ call.years >= 1
       /\ LastFetch.outcome \in {"raise", "empty"})
    => (exc = "none" /\ pc # "raised"
        /\ IsFallback(data, call.years, LastFetch.today))

HasUnknownKey(allocation) == \E a \in DOMAIN allocation : a \notin AssetClasses

\* C3: simulate_portfolio (and with it run_backtest and compare_strategies)
\* given an allocation with a key outside equity, gold, gilt, debt ends in an
\* error (InvalidAllocation); the key is not silently skipped.
C3_UnknownKeyRejected ==
    /\ (Returned_From("simulate_portfolio") /\ HasUnknownKey(call.allocation))
       => exc # "none"
    /\ (InCompare /\ Len(fetches) >= 1 /\ HasUnknownKey(call.recommended_allocation))
       => exc # "none"

\* C4: an allocation whose weights total 0 is rejected: run_backtest returns
\* no result computed from it.  (Stated for the horizons of one year and
\* more.)
C4_ZeroTotalRejected ==
    (InCompare /\ call.years >= 1 /\ SumFn(call.recommended_allocation) = Q(0))
    => "Recommended Portfolio" \notin DOMAIN results

\* C5: fetch_historical_data called with years <= 0 rejects the input: it
\* returns no series.
C5_NonPositiveYearsRejected ==
    (InCompare /\ call.years <= 0 /\ Len(fetches) >= 1) => data = NoData

NonDecreasing(xs) == \A i \in 1..(Len(xs) - 1) : Le(xs[i], xs[i + 1])

Positive(xs) == \A i \in 1..Len(xs) : Lt(Q(0), xs[i])

\* C6: for a portfolio series (it has a first value) whose values are positive
\* and non-decreasing, calculate_max_drawdown returns 0.
C6_NoDrawdownWhenNonDecreasing ==
    /\ (Returned_From("calculate_max_drawdown")
          /\ Len(call.portfolio_series.values) >= 1
          /\ Positive(call.portfolio_series.values)
          /\ NonDecreasing(call.portfolio_series.values))
       => ret = Q(0)
    /\ InCompare =>
          \A name \in DOMAIN results :
             (Positive(results[name].portfolio_series.values)
                /\ NonDecreasing(results[name].portfolio_series.values))
             => results[name].max_drawdown = Q(0)

C6_Witness ==
    /\ Returned_From("calculate_max_drawdown")
    /\ call.portfolio_series.values = <<Q(1), Q(2), Q(2), Q(3)>>
    /\ ret = Q(0)

Constant(xs) == \A i, j \in 1..Len(xs) : xs[i] = xs[j]

\* C7: for a constant portfolio series calculate_sharpe_ratio returns 0.
\* (Stated for the series with at least one period return; C8 is the single
\* point.)
C7_ConstantSeriesSharpeZero ==
    (Returned_From("calculate_sharpe_ratio")
       /\ Len(call.portfolio_series.values) >= 2
       /\ Constant(call.portfolio_series.values))
    => ret = Q(0)

\* C8: for a portfolio series with a single data point calculate_sharpe_ratio
\* returns 0.
C8_SinglePointSharpeZero ==
    (Returned_From("calculate_sharpe_ratio") /\ Len(call.portfolio_series.values) = 1)
    => ret = Q(0)

\* C9: calculate_cagr returns 0 whenever start <= 0 or end <= 0 or years <= 0,
\* and raises nothing.
C9_CagrGuard ==
    /\ (Returned_From("calculate_cagr")
          /\ (Le(call.start_value, Q(0)) \/ Le(call.end_value, Q(0)) \/ Le(call.years, Q(0))))
       => (ret = Q(0) /\ exc = "none")
    /\ InCompare =>
          \A name \in DOMAIN results :
             LET s == results[name].portfolio_series
             IN  (Le(results[name].initial_value, Q(0))
                    \/ Le(results[name].final_value, Q(0))
                    \/ s.index[Len(s.index)] <= s.index[1])
                 => results[name].cagr = Q(0)

C9_Witness ==
    /\ Returned_From("calculate_cagr")
    /\ call.start_value = Q(1) /\ call.end_value = Q(2) /\ call.years = Q(0)
    /\ ret = Q(0)

\* C10: the mapping compare_strategies returns has exactly the keys
\* 'Recommended Portfolio', 'Nifty 50 Only' and 'Fixed Deposit Only', and the
\* latter two are computed from 100% equity and 100% debt.
C10_ThreeFixedKeys ==
    /\ pc = "done" =>
          DOMAIN ret = {"Recommended Portfolio", "Nifty 50 Only", "Fixed Deposit Only"}
    /\ (RanBacktest /\ k = 2) =>
          results["Nifty 50 Only"] =
             Analyze(simulate_portfolio(
                [equity |-> Q(100), gold |-> Q(0), gilt |-> Q(0), debt |-> Q(0)],
                data, call.initial_amount).value)
    /\ (RanBacktest /\ k = 3) =>
          results["Fixed Deposit Only"] =
             Analyze(simulate_portfolio(
                [equity |-> Q(0), gold |-> Q(0), gilt |-> Q(0), debt |-> Q(100)],
                data, call.initial_amount).value)

\* The recommended allocation is the 100% equity benchmark itself, the feed
\* delivered rows, and the three results are there.
C10_Witness ==
    /\ pc = "done"
    /\ call.recommended_allocation = nifty_allocation
    /\ \E i \in 1..3 : fetches[i].outcome = "rows"
    /\ Cardinality(DOMAIN ret) = 3
    /\ ret["Recommended Portfolio"].portfolio_series = ret["Nifty 50 Only"].portfolio_series
    /\ ret["Fixed Deposit Only"].final_value # ret["Nifty 50 Only"].final_value

AbsQ(x) == IF Lt(x, Q(0)) THEN Neg(x) ELSE x

\* Each of the four weights is rounded by at most 0.005.
WithinRounding(total) == Le(AbsQ(Sub(total, Q(100))), Rat(2, 100))

\* An Allocation of the data model handed to adjust_for_valuation: the four
\* asset classes, with a positive total.
PositiveTotal(allocation) ==
    DOMAIN allocation = AssetClasses /\ Lt(Q(0), SumFn(allocation))

\* C12: every allocation base_allocation returns sums to 100, and for every
\* input allocation with a positive total and every combination of the two
\* flags adjust_for_valuation returns an allocation whose weights, each a
\* multiple of 0.01, sum to 100 within the rounding tolerance.
C12_AllocationsSumTo100 ==
    /\ Returned_From("base_allocation") => SumFn(ret) = Q(100)
    /\ (Returned_From("adjust_for_valuation") /\ PositiveTotal(call.allocation))
       => /\ exc = "none"
          /\ DOMAIN ret = AssetClasses
          /\ \A a \in AssetClasses : Mul(ret[a], Q(100))[2] = 1
          /\ WithinRounding(SumFn(ret))

\* Both flags set, a total other than 100 going in, and the rounding shows.
C12_Witness ==
    /\ Returned_From("adjust_for_valuation") /\ PositiveTotal(call.allocation)
    /\ call.equity_overvalued /\ call.gold_overvalued
    /\ SumFn(call.allocation) # Q(100)
    /\ SumFn(ret) # Q(100) /\ WithinRounding(SumFn(ret))

\* C20: compute_risk_score returns an integer in 0..100 for every non-empty
\* answers mapping whose scores lie in 0..10, and 50 for the empty mapping;
\* classify_risk returns Low below 35, Medium from 35 to 69, High from 70.
C20_RiskScoreAndClass ==
    /\ (Returned_From("compute_risk_score") /\ DOMAIN call.answers # {}
          /\ \A q \in DOMAIN call.answers : call.answers[q] \in 0..10)
       => ret \in 0..100
    /\ (Returned_From("compute_risk_score") /\ DOMAIN call.answers = {}) => ret = 50
    /\ Returned_From("classify_risk")
       => /\ ret \in {"Low", "Medium", "High"}
          /\ ret = "Low" <=> call.score < 35
          /\ ret = "Medium" <=> (35 <= call.score /\ call.score <= 69)
          /\ ret = "High" <=> call.score >= 70

\* The three questions of the dashboard, all answered 10.
C20_Witness ==
    /\ Returned_From("compute_risk_score")
    /\ call.answers = [q \in Questions |-> 10]
    /\ ret = 100 /\ classify_risk(ret) = "High"

\* The dates on which every series of the price data has a value.
CommonDates(historical_data) ==
    {d \in UNION {Dates(historical_data[c]) : c \in DOMAIN historical_data} :
        \A c \in DOMAIN historical_data : d \in Dates(historical_data[c])}

FinitePositive(historical_data) ==
    \A c \in DOMAIN historical_data :
       \A i \in 1..Len(historical_data[c].values) :
          Lt(Q(0), historical_data[c].values[i]) /\ ~IsInf(historical_data[c].values[i])

OnePerCommonDate(s, historical_data) ==
    /\ Len(s.values) = Len(s.index)
    /\ Dates(s) = CommonDates(historical_data)
    /\ \A i, j \in 1..Len(s.index) : i < j => s.index[i] < s.index[j]
    /\ \A i \in 1..Len(s.values) : ~IsNaN(s.values[i])

\* C13: the series simulate_portfolio returns has exactly one value for each
\* date on which every asset-class series has a value, in increasing date
\* order, and with finite positive prices none of its values is NaN.
C13_OneValuePerCommonDate ==
    /\ (Returned_From("simulate_portfolio") /\ exc = "none"
          /\ FinitePositive(call.historical_data))
       => OnePerCommonDate(ret, call.historical_data)
    /\ (RanBacktest /\ FinitePositive(data)) => OnePerCommonDate(pseries, data)

\* The equity series lacks the second date, which the other three have.
C13_Witness ==
    /\ Returned_From("simulate_portfolio") /\ exc = "none"
    /\ Dates(call.historical_data.equity) = {1}
    /\ Dates(call.historical_data.gold) = {1, 2}
    /\ ret.index = <<1>> /\ Len(ret.values) = 1

\* C14: on the live path of fetch_historical_data the four series have the
\* same date index, and the alignment of simulate_portfolio drops no date.
C14_LiveSeriesShareIndex ==
    (InCompare /\ Len(fetches) >= 1 /\ LastFetch.outcome = "rows" /\ pc # "raised"
       /\ SumsTo100(call.recommended_allocation, data))
    => /\ \A a \in AssetClasses : data[a].index = data.equity.index
       /\ pseries.index = data.equity.index

\* C15: run_backtest does not abort on degenerate data: when the feed's equity
\* and gold rows share no date it returns a result and raises nothing.
C15_NoCommonDateNoAbort ==
    (InCompare /\ Len(fetches) >= 1 /\ call.years >= 1 /\ LastFetch.outcome = "rows"
       /\ SumsTo100(call.recommended_allocation, data)
       /\ data.equity.index # <<>> /\ data.gold.index # <<>>
       /\ CommonDates(data) = {})
    => (exc = "none" /\ pc # "raised" /\ StrategyNames[Len(fetches)] \in DOMAIN results)

\* initial_amount x the sum, over the asset classes held with a positive
\* weight, of weight/100 x price[d] / price[first].
BlendAt(allocation, historical_data, initial_amount, first, d) ==
    LET held == {a \in DOMAIN allocation \cap DOMAIN historical_data :
                    Lt(Q(0), allocation[a])}
    IN  Mul(Q(initial_amount),
            SumFn([a \in held |->
                     Mul(Div(allocation[a], Q(100)),
                         Div(At(historical_data[a], d), At(historical_data[a], first)))]))

IsBlend(s, allocation, historical_data, initial_amount) ==
    \A i \in 1..Len(s.index) :
       s.values[i] = BlendAt(allocation, historical_data, initial_amount,
                             s.index[1], s.index[i])

\* The price ratio of asset class a between the last and the first date of s.
PriceRatio(historical_data, a, s) ==
    Div(At(historical_data[a], s.index[Len(s.index)]), At(historical_data[a], s.index[1]))

\* C18: at every aligned date the value simulate_portfolio returns is
\* initial_amount x the sum over the asset classes with positive weight of
\* weight/100 x price[t]/price[first aligned date]; with 100% in one asset
\* class the first value is initial_amount and final/initial is that asset's
\* price ratio between the last and the first aligned date.
C18_WeightedBlend ==
    /\ (Returned_From("simulate_portfolio") /\ exc = "none")
       => /\ IsBlend(ret, call.allocation, call.historical_data, call.initial_amount)
          /\ call.allocation = nifty_allocation
             => /\ ret.values[1] = Q(call.initial_amount)
                /\ Div(ret.values[Len(ret.values)], ret.values[1])
                     = PriceRatio(call.historical_data, "equity", ret)
    /\ RanBacktest
       => IsBlend(pseries, StrategyAllocation(k), data, call.initial_amount)
    /\ (RanBacktest /\ k = 3)
       => /\ results["Fixed Deposit Only"].initial_value = Q(call.initial_amount)
          /\ Div(results["Fixed Deposit Only"].final_value,
                 results["Fixed Deposit Only"].initial_value)
               = PriceRatio(data, "debt", pseries)

\* An allocation with a negative weight, which is left out of the blend, over
\* two dates between which the value changes.
C18_Witness ==
    /\ Returned_From("simulate_portfolio") /\ exc = "none"
    /\ \E a \in DOMAIN call.allocation : Lt(call.allocation[a], Q(0))
    /\ Len(ret.values) = 2
    /\ ret.values[1] # ret.values[2]

\* C16: with the allocation {equity: 100, gold: 0, gilt: 0, debt: 0} and an
\* equity price series that is constant over all dates, run_backtest yields
\* cagr = 0, max_drawdown = 0, sharpe_ratio = 0 and final_value =
\* initial_amount, whatever the gold, gilt and debt series are.  (Stated for
\* the series of two dates and more.)
C16_ConstantEquityAllZero ==
    /\ (Returned_From("run_backtest") /\ exc = "none"
          /\ call.allocation = nifty_allocation
          /\ Constant(call.historical_data.equity.values)
          /\ Len(ret.portfolio_series.index) >= 2)
       => /\ ret.cagr = Q(0) /\ ret.max_drawdown = Q(0) /\ ret.sharpe_ratio = Q(0)
          /\ ret.final_value = Q(call.initial_amount)
    /\ (RanBacktest /\ StrategyAllocation(k) = nifty_allocation
          /\ Constant(data.equity.values)
          /\ Len(pseries.index) >= 2)
       => LET res == results[StrategyNames[k]]
          IN  /\ res.cagr = Q(0) /\ res.max_drawdown = Q(0) /\ res.sharpe_ratio = Q(0)
              /\ res.final_value = Q(call.initial_amount)

\* Every asset class has the same ratio price[d]/price[first] on the dates of s.
SameGrowth(historical_data, s) ==
    \A a, b \in DOMAIN historical_data : \A i \in 1..Len(s.index) :
       Div(At(historical_data[a], s.index[i]), At(historical_data[a], s.index[1]))
         = Div(At(historical_data[b], s.index[i]), At(historical_data[b], s.index[1]))

\* C17: if every asset class has the same growth ratio at every aligned date,
\* then for every allocation summing to 100 the portfolio value at each date
\* is initial_amount times that ratio; when all assets go from 100 to 150 over
\* two dates (a ratio of 3/2) the total_return is 50.
C17_UniformGrowth ==
    /\ (Returned_From("simulate_portfolio") /\ exc = "none"
          /\ SumsTo100(call.allocation, call.historical_data)
          /\ SameGrowth(call.historical_data, ret))
       => \A i \in 1..Len(ret.index) :
             ret.values[i] =
                Mul(Q(call.initial_amount),
                    Div(At(call.historical_data.equity, ret.index[i]),
                        At(call.historical_data.equity, ret.index[1])))
    /\ (Returned_From("run_backtest") /\ exc = "none"
          /\ SumsTo100(call.allocation, call.historical_data)
          /\ SameGrowth(call.historical_data, ret.portfolio_series)
          /\ Len(ret.portfolio_series.index) = 2
          /\ PriceRatio(call.historical_data, "equity", ret.portfolio_series) = Rat(3, 2))
       => (ret.total_return = Q(50) /\ ret.final_value = Q(150))

\* The weights of scenario 3, all four assets growing by half.
C17_Witness ==
    /\ Returned_From("run_backtest") /\ exc = "none"
    /\ call.allocation = [equity |-> Q(50), gold |-> Q(20), gilt |-> Q(20), debt |-> Q(10)]
    /\ \A a \in AssetClasses : call.historical_data[a].values = <<Q(2), Q(3)>>
    /\ ret.portfolio_series.values = <<Q(100), Q(150)>>
    /\ ret.total_return = Q(50)

\* What the i-th fetch_historical_data of the call returned, from the log of
\* the feed.
FetchedAt(i) ==
    fetch_historical_data(call.years, fetches[i].today, fetches[i].outcome,
                          [nifty |-> Rows(world.nifty), gold |-> Rows(world.gold)])

\* C19: one call of compare_strategies performs three complete fetch ->
\* simulate -> analyze cycles, for the recommended allocation, 100% equity and
\* 100% debt in this order; each cycle queries the price provider itself and
\* computes its result from what that query returned, not from the data of
\* another cycle.
C19_ThreeIndependentCycles ==
    InCompare =>
       LET allocations == <<call.recommended_allocation,
                            [equity |-> Q(100), gold |-> Q(0), gilt |-> Q(0), debt |-> Q(0)],
                            [equity |-> Q(0), gold |-> Q(0), gilt |-> Q(0), debt |-> Q(100)]>>
       IN  /\ Len(fetches) = IF pc = "raised" THEN k + 1 ELSE k
           /\ pc = "done" <=> k = 3
           /\ DOMAIN results = {StrategyNames[i] : i \in 1..k}
           /\ \A i \in 1..(Len(fetches) - 1) : fetches[i].today <= fetches[i + 1].today
           /\ Len(fetches) >= 1 => data = FetchedAt(Len(fetches))
           /\ RanBacktest =>
                 /\ pseries = simulate_portfolio(allocations[k], data,
                                                 call.initial_amount).value
                 /\ results[StrategyNames[k]] = Analyze(pseries)
           /\ pc = "done" =>
                 \A i \in 1..3 :
                    ret[StrategyNames[i]].portfolio_series =
                       simulate_portfolio(allocations[i], FetchedAt(i),
                                          call.initial_amount).value

\* The three cycles met the feed differently (rows, failure, rows, a day
\* later), and each result shows the data of its own cycle.
C19_Witness ==
    /\ pc = "done" /\ Len(fetches) = 3
    /\ fetches[1].outcome = "rows" /\ fetches[2].outcome = "raise"
    /\ fetches[3].outcome = "rows" /\ fetches[3].today > fetches[1].today
    /\ ret["Nifty 50 Only"].final_value = Mul(Q(call.initial_amount), Rat(180, 100))
    /\ ret["Fixed Deposit Only"].portfolio_series.index # ret["Nifty 50 Only"].portfolio_series.index

\* The rows the feed delivered to the i-th fetch of the log.
Delivered(i) ==
    LET start_date == fetches[i].today - call.years * YearDays
    IN  [nifty |-> Within(Rows(world.nifty), start_date, fetches[i].today),
         gold  |-> Within(Rows(world.gold), start_date, fetches[i].today)]

\* The fetches of the second call met the feed as those of the first did:
\* both took the fallback path, or both were delivered the same rows.
SameFeed ==
    \A i \in 1..3 :
       /\ fetches[i].outcome = fetches[i + 3].outcome
       /\ fetches[i].outcome = "rows" => Delivered(i) = Delivered(i + 3)

Statistics(r) ==
    [cagr |-> r.cagr, max_drawdown |-> r.max_drawdown, sharpe_ratio |-> r.sharpe_ratio,
     total_return |-> r.total_return, initial_value |-> r.initial_value,
     final_value |-> r.final_value]

\* Both calls have returned.
CalledTwice == pc = "done" /\ previous # NoResults /\ Len(fetches) = 6

\* C11: two runs of compare_strategies with the same allocation,
\* initial_amount and years, in which the feed delivers the same price data
\* (or both take the fallback path), give the same cagr, max_drawdown,
\* sharpe_ratio, total_return, initial_value and final_value for each of the
\* three strategies, whatever the wall-clock time of each run.
C11_SameStatisticsOnRerun ==
    (CalledTwice /\ SameFeed)
    => \A i \in 1..3 :
          Statistics(ret[StrategyNames[i]]) = Statistics(previous[StrategyNames[i]])

\* The second run is a day later; one cycle took the fallback path in both
\* runs, so its series lies on other dates, and one was delivered rows.
C11_Witness ==
    /\ CalledTwice /\ SameFeed
    /\ fetches[4].today > fetches[1].today
    /\ \E i \in 1..3 : fetches[i].outcome = "rows"
    /\ \E i \in 1..3 :
          /\ fetches[i].outcome = "raise"
          /\ ret[StrategyNames[i]].portfolio_series.index
               # previous[StrategyNames[i]].portfolio_series.index
          /\ Len(ret[StrategyNames[i]].portfolio_series.index) >= 2
    /\ \A i \in 1..3 :
          Statistics(ret[StrategyNames[i]]) = Statistics(previous[StrategyNames[i]])

\* The CAGR of run_backtest's result r, computed over the elapsed time between
\* the first and the last date of its series.
CagrOverActualSpan(r) ==
    LET s == r.portfolio_series
        n == Len(s.index)
    IN  /\ r.cagr = calculate_cagr(s.values[1], s.values[n],
                                   Rat(s.index[n] - s.index[1], YearDays))
        /\ n = 1 => r.cagr = Q(0)

\* C23: run_backtest computes the CAGR with years = (last date - first date
\* of the aligned portfolio series, in days) / 365, whatever the requested
\* years; when the series spans a single date the cagr is 0.
C23_CagrOverActualSpan ==
    /\ (Returned_From("run_backtest") /\ exc = "none") => CagrOverActualSpan(ret)
    /\ RanBacktest => CagrOverActualSpan(results[StrategyNames[k]])

\* One year is asked for, the series spans half a year and grows by half.
C23_Witness ==
    /\ Returned_From("run_backtest") /\ exc = "none"
    /\ call.years = 1
    /\ ret.portfolio_series.index = <<1, 2>>
    /\ ret.cagr = CagrValue(Rat(3, 2), Rat(1, 2))
    /\ ret.cagr # CagrValue(Rat(3, 2), Q(1))

\* The values of s start at 100, end at terminal and rise by equal steps.
RisesLinearly(s, terminal) ==
    LET n == Len(s.values)
    IN  /\ s.values[1] = Q(100) /\ s.values[n] = Q(terminal)
        /\ \A i \in 1..(n - 1) :
              Sub(s.values[i + 1], s.values[i]) = Rat(terminal - 100, n - 1)

Terminals == [equity |-> 180, gold |-> 140, gilt |-> 140, debt |-> 134]

\* C24: on the fallback path with years >= 1 the four series lie on one daily
\* date index of years*365+1 dates, start at 100 and rise linearly to 180
\* (equity), 140 (gold), 140 (gilt) and 134 (debt); so for every allocation
\* summing to 100 run_backtest reports max_drawdown = 0 and final_value =
\* initial_amount x sum of weight x terminal / 10000, which is 1.8 x initial
\* for 'Nifty 50 Only' and 1.34 x initial for 'Fixed Deposit Only'.
C24_FallbackLinear ==
    (RanBacktest /\ LastFetch.outcome = "raise" /\ call.years >= 1)
    => LET res == results[StrategyNames[k]]
           M   == Q(call.initial_amount)
       IN  /\ \A a \in AssetClasses :
                 /\ Len(data[a].index) = call.years * YearDays + 1
                 /\ data[a].index = data.equity.index
                 /\ \A i \in 1..(Len(data[a].index) - 1) :
                       data[a].index[i + 1] = data[a].index[i] + 1
                 /\ RisesLinearly(data[a], Terminals[a])
           /\ SumsTo100(StrategyAllocation(k), data)
              => /\ res.max_drawdown = Q(0)
                 /\ res.final_value =
                      Div(Mul(M, SumFn([a \in DOMAIN StrategyAllocation(k) |->
                                          Mul(StrategyAllocation(k)[a], Q(Terminals[a]))])),
                          Q(10000))
           /\ k = 2 => res.final_value = Mul(M, Rat(18, 10))
           /\ k = 3 => res.final_value = Mul(M, Rat(134, 100))

\* The feed failed in all three cycles of a comparison of the 50/20/20/10
\* allocation: 50 x 180 + 20 x 140 + 20 x 140 + 10 x 134 = 15940.
C24_Witness ==
    /\ pc = "done" /\ call.years >= 1
    /\ \A i \in 1..3 : fetches[i].outcome = "raise"
    /\ call.recommended_allocation =
          [equity |-> Q(50), gold |-> Q(20), gilt |-> Q(20), debt |-> Q(10)]
    /\ ret["Recommended Portfolio"].final_value = Mul(Q(call.initial_amount), Rat(15940, 10000))
    /\ ret["Recommended Portfolio"].max_drawdown = Q(0)
    /\ ret["Nifty 50 Only"].final_value = Mul(Q(call.initial_amount), Rat(18, 10))
    /\ ret["Fixed Deposit Only"].final_value = Mul(Q(call.initial_amount), Rat(134, 100))

NonNegative(allocation) ==
    PositiveTotal(allocation) /\ \A a \in AssetClasses : Le(Q(0), allocation[a])

\* What C26 says apart from the debt weight: no output weight is negative, the
\* caller's mapping is as it was, and before the normalisation equity is down
\* by at most 10 points and gold by at most 5.
TiltIsBounded ==
    LET t == Tilted(call.allocation, call.equity_overvalued, call.gold_overvalued)
    IN  /\ exc = "none"
        /\ \A a \in AssetClasses : Le(Q(0), ret[a])
        /\ call.base_alloc = call.allocation
        /\ Le(Sub(call.allocation.equity, Q(10)), t.equity)
        /\ Le(Sub(call.allocation.gold, Q(5)), t.gold)

-----------------------------------------------------------------------------
(* The users table.                                                        *)

UniqueUsernames(table) ==
    \A i, j \in DOMAIN table : table[i].username = table[j].username => i = j

Stored(table, username, password, id) ==
    \E i \in DOMAIN table : table[i] = [id |-> id, username |-> username,
                                        password_hash |-> hash_password(password)]

\* What one call of create_user may do to the table, and what it returns.
CreateUserStep ==
    call'.fn = "create_user" =>
        IF HasUsername(users, call'.username)
        THEN /\ ret'[1] = FALSE
             /\ ret' = <<FALSE, "Username already exists!", None>>
             /\ users' = users
        ELSE /\ ret'[1] = TRUE
             /\ users' = Append(users, [id |-> ret'[3], username |-> call'.username,
                                        password_hash |-> hash_password(call'.password)])

\* What one call of authenticate_user may do and return.
AuthenticateUserStep ==
    call'.fn = "authenticate_user" =>
        /\ users' = users
        /\ ret'[1] = TRUE => Stored(users, call'.username, call'.password, ret'[3])

\* C21: every call of create_user or authenticate_user leaves the users
\* table without two rows of one username; create_user with a username that a
\* row already has returns (False, 'Username already exists!', None) and
\* leaves the table as it was, and otherwise adds exactly the row of its
\* username and the hash of its password; authenticate_user changes nothing
\* and succeeds only for a username and password whose hash is in a row that
\* a successful create_user added.
C21_UniqueUsernames ==
    [][/\ UniqueUsernames(users')
       /\ CreateUserStep
       /\ AuthenticateUserStep]_vars

\* A create_user call has been refused for its username while the table
\* holds both users.
C21_Witness ==
    /\ pc = "db"
    /\ call.fn = "create_user"
    /\ ret[1] = FALSE
    /\ ret = <<FALSE, "Username already exists!", None>>
    /\ Len(users) = 2


-----------------------------------------------------------------------------
(* The dashboard's session.                                                *)

Saves == {"save_recommendation", "update_user_profile"}

\* The invocation at position i was made for the user of the latest
\* successful authenticate_user before it.
ForAuthenticatedUser(i) ==
    \E j \in 1..(i - 1) :
        /\ invoked[j].fn = "authenticate_user"
        /\ invoked[j].user_id = invoked[i].user_id
        /\ \A m \in (j + 1)..(i - 1) : invoked[m].fn # "authenticate_user"

Logins == {j \in DOMAIN invoked : invoked[j].fn = "authenticate_user"}

LatestAuthenticated == invoked[CHOOSE j \in Logins : \A m \in Logins : m <= j].user_id

\* C22: after any sequence of dashboard events, every save_recommendation and
\* update_user_profile was invoked with logged_in true, outside guest mode,
\* for the user_id of the latest successful authenticate_user, and the table
\* of recommendations holds one row per such invocation and no other row; a
\* user_id in the session is the one the latest successful authenticate_user
\* returned; in guest mode the session is not logged in and the saved-plans
\* page is neither offered nor shown; a session that is not logged in, the
\* one after logout among them, holds no user_id.
C22_SavesOnlyWhenLoggedIn ==
    /\ \A i \in DOMAIN invoked :
          invoked[i].fn \in Saves =>
              /\ invoked[i].logged_in
              /\ ~invoked[i].guest_mode
              /\ ForAuthenticatedUser(i)
    /\ Len(recommendations)
          = Cardinality({i \in DOMAIN invoked : invoked[i].fn = "save_recommendation"})
    /\ "user_id" \in DOMAIN session =>
          /\ GetFlag(session, "logged_in")
          /\ Logins # {}
          /\ session.user_id = LatestAuthenticated
    /\ GetFlag(session, "guest_mode") =>
          /\ ~GetFlag(session, "logged_in")
          /\ "saved" \notin NavigationOptions(session)
          /\ page # "saved"
    /\ ~GetFlag(session, "logged_in") => "user_id" \notin DOMAIN session
    /\ call.fn = "logout" => "user_id" \notin DOMAIN session

\* Two users have logged in, one after the other's logout, and the second
\* one's recommendation has been saved.
C22_Witness ==
    /\ pc = "app"
    /\ Len(invoked) >= 4
    /\ invoked[1].fn = "authenticate_user"
    /\ invoked[2].fn = "authenticate_user"
    /\ invoked[1].user_id # invoked[2].user_id
    /\ invoked[Len(invoked)].fn = "update_user_profile"
    /\ Len(recommendations) >= 1


-----------------------------------------------------------------------------
(* The user_profiles table.                                                *)

RowsOf(user_id) == {i \in DOMAIN user_profiles : user_profiles[i].user_id = user_id}

\* C27: after any calls of update_user_profile, two running at the same time
\* for one user_id among them, the user_profiles table holds at most one row
\* per user_id, and get_user_profile returns the values of the call that
\* committed last for that user_id.
C27_OneRowLatestValues ==
    \A user_id \in UserIds :
        /\ Cardinality(RowsOf(user_id)) <= 1
        /\ user_id \in DOMAIN committed =>
              get_user_profile(user_profiles, user_id) = committed[user_id]


====
